---- MODULE Spec2Model ----
(***************************************************************************)
(* Model of src/mbs_sim.py: a fixed-rate mortgage (Mortgage.create and     *)
(* Mortgage.step), the tranche waterfall (allocate_losses and the interest *)
(* and principal loops of price_single_path) and the Monte Carlo driver    *)
(* (monte_carlo).                                                          *)
(*                                                                         *)
(* Numbers.  Python floats are modelled as fixed-point integers.  One unit *)
(* of money is half the threshold 1e-9 the code compares balances         *)
(* against, so "x <= 1e-9" is "x <= EPS" with EPS = 2 and an amount can    *)
(* lie strictly between 0 and the threshold.  Additions, subtractions and  *)
(* min are exact; every multiplication or division by a rate rounds to     *)
(* the nearest unit, ties to even, as IEEE arithmetic rounds to the        *)
(* nearest representable value (RoundDiv).  Annual rates (note rate,       *)
(* coupon, discount rate) are multiples of 1/RateDen; CPR, CDR and the     *)
(* recovery fraction are multiples of 1/ProbDen in [0,1]; monthly          *)
(* probabilities and uniform draws are multiples of 1/MonthDen.            *)
(***************************************************************************)
EXTENDS Integers, Sequences, FiniteSets, TLC

VARIABLES
    pc,                 \* position of the running program
    runs, months, cpr, cdr, recovery, disc_rate,   \* parameters
    tranche_cfg,        \* the literal tranche values of monte_carlo
    heap,               \* Tranche objects by reference
    tranches,           \* price_single_path: list of references (working copy)
    mortgages,          \* price_single_path: the pool (list of Mortgage)
    pv,                 \* price_single_path: tranche name -> present value
    month,              \* price_single_path: loop variable
    li,                 \* index of the next loan to step in the month
    cash_int, cash_prin, losses,       \* month totals
    interest_available, principal_available,
    interest_paid, principal_paid,     \* per tranche lists of the month
    cf,                 \* the dict returned by the last Mortgage.step
    aggregate,          \* monte_carlo: tranche name -> summed PV
    k,                  \* monte_carlo: number of completed paths
    hist,               \* history: what each finished path returned
    paid, nsteps, principal0,  \* history of one loan: principal returned, calls, original principal
    lastdraw,           \* history of one loan: the draw of the last step, -1 if it drew none
    pre,                \* history: tranche balances before the last allocation
    tape, pos, inv, result1   \* the random source as a tape, and the first invocation's result

vars == << pc, runs, months, cpr, cdr, recovery, disc_rate, tranche_cfg, heap,
           tranches, mortgages, pv, month, li, cash_int, cash_prin, losses,
           interest_available, principal_available, interest_paid,
           principal_paid, cf, aggregate, k, hist, paid, nsteps, principal0,
           lastdraw, pre, tape, pos, inv, result1 >>

-----------------------------------------------------------------------------
(* Bounds of the model *)
MaxTerm   == 3     \* longest loan term, in months
MaxRuns   == 2     \* largest run count
MaxMonths == 3     \* longest horizon
MaxSteps  == 5     \* step calls on one loan in the loan specification

(* Program constants *)
EPS      == 2      \* 1e-9, in units
RateDen  == 1      \* annual rates are multiples of 1/RateDen
ProbDen  == 4096   \* CPR, CDR and recovery are multiples of 1/ProbDen
MonthDen == 2      \* monthly probabilities and uniform draws: multiples of 1/MonthDen

Min(a, b) == IF a <= b THEN a ELSE b

RECURSIVE Pow(_, _)
Pow(b, e) == IF e = 0 THEN 1 ELSE b * Pow(b, e - 1)

(* q[1] + ... + q[j] *)
RECURSIVE SumSeq(_, _)
SumSeq(q, j) == IF j = 0 THEN 0 ELSE q[j] + SumSeq(q, j - 1)

(* n/d rounded to the nearest integer, ties to even (d > 0). *)
RoundDiv(n, d) ==
    LET q == n \div d
        r == n % d
    IN  IF 2 * r < d THEN q
        ELSE IF 2 * r > d THEN q + 1
        ELSE IF q % 2 = 0 THEN q ELSE q + 1

(* x * (num/den), rounded. *)
MulRate(x, num, den) == RoundDiv(x * num, den)

(* 1 - (1 - a)^(1/12) for an annual probability a/ProbDen, in units of      *)
(* 1/MonthDen: the largest m with (1 - m/MonthDen)^12 >= 1 - a/ProbDen.     *)
MonthlyEquiv(a) ==
    CHOOSE m \in 0..MonthDen :
        /\ Pow(MonthDen - m, 12) * ProbDen >= (ProbDen - a) * Pow(MonthDen, 12)
        /\ \A m2 \in 0..MonthDen :
              Pow(MonthDen - m2, 12) * ProbDen >= (ProbDen - a) * Pow(MonthDen, 12)
                 => m2 <= m

-----------------------------------------------------------------------------
(* Mortgage *)

ZeroCf == [interest |-> 0, principal |-> 0, loss |-> 0]

(* Mortgage.create: level payment by the annuity formula                   *)
(*   payment = P*r / (1 - (1+r)^-n),  r = rate/12                          *)
(* written over integers as P*a*(D+a)^n / (D*((D+a)^n - D^n)), r = a/D.     *)
Create(principal, rate, term_months) ==
    LET D   == 12 * RateDen
        up  == Pow(D + rate, term_months)
        payment == RoundDiv(principal * rate * up,
                            D * (up - Pow(D, term_months)))
    IN  [balance |-> principal, rate |-> rate, term |-> term_months,
         remaining |-> term_months, payment |-> payment, alive |-> TRUE]

(* Mortgage.step without the early return of lines 52-53. *)
StepNoGuard(m, c_pr, c_dr, rec, u) ==
    LET monthly_default == MonthlyEquiv(c_dr)
        monthly_prepay  == MonthlyEquiv(c_pr)
        interest == MulRate(m.balance, m.rate, 12 * RateDen)
        scheduled_principal == Min(m.payment - interest, m.balance)
    IN  IF u < monthly_default
        THEN LET cash_recovered == MulRate(m.balance, rec, ProbDen)
                 credit_loss == m.balance - cash_recovered
             IN  [loan |-> [m EXCEPT !.balance = 0, !.alive = FALSE],
                  cf |-> [interest |-> 0, principal |-> cash_recovered,
                          loss |-> credit_loss]]
        ELSE LET prepay_amount ==
                     MulRate(m.balance - scheduled_principal, monthly_prepay, MonthDen)
                 total_principal ==
                     Min(m.balance, scheduled_principal + prepay_amount)
                 balance2 == m.balance - total_principal
                 remaining2 == m.remaining - 1
             IN  [loan |-> [m EXCEPT !.balance = balance2,
                                     !.remaining = remaining2,
                                     !.alive = IF remaining2 <= 0 \/ balance2 <= EPS
                                               THEN FALSE ELSE m.alive],
                  cf |-> [interest |-> interest, principal |-> total_principal,
                          loss |-> 0]]

(* Mortgage.step paying the month's interest in a default month too. *)
StepDefaultInterest(m, c_pr, c_dr, rec, u) ==
    IF ~m.alive \/ m.balance <= EPS THEN [loan |-> m, cf |-> ZeroCf]
    ELSE
      LET r == StepNoGuard(m, c_pr, c_dr, rec, u)
      IN  IF u < MonthlyEquiv(c_dr)
          THEN [r EXCEPT !.cf.interest = MulRate(m.balance, m.rate, 12 * RateDen)]
          ELSE r

(* Mortgage.step prepaying on the whole balance instead of the balance     *)
(* left after the scheduled principal.                                     *)
StepPrepayFull(m, c_pr, c_dr, rec, u) ==
    IF ~m.alive \/ m.balance <= EPS THEN [loan |-> m, cf |-> ZeroCf]
    ELSE
      LET r == StepNoGuard(m, c_pr, c_dr, rec, u)
          interest == MulRate(m.balance, m.rate, 12 * RateDen)
          scheduled_principal == Min(m.payment - interest, m.balance)
          prepay_amount == MulRate(m.balance, MonthlyEquiv(c_pr), MonthDen)
          total_principal == Min(m.balance, scheduled_principal + prepay_amount)
          balance2 == m.balance - total_principal
      IN  IF u < MonthlyEquiv(c_dr) THEN r
          ELSE [loan |-> [m EXCEPT !.balance = balance2,
                                   !.remaining = m.remaining - 1,
                                   !.alive = IF m.remaining - 1 <= 0 \/ balance2 <= EPS
                                             THEN FALSE ELSE m.alive],
                cf |-> [interest |-> interest, principal |-> total_principal,
                        loss |-> 0]]

(* Mortgage.step clearing alive on "balance <= 1e-9" alone (line 77       *)
(* without "self.remaining <= 0").                                         *)
StepNoExpiry(m, c_pr, c_dr, rec, u) ==
    IF ~m.alive \/ m.balance <= EPS THEN [loan |-> m, cf |-> ZeroCf]
    ELSE
      LET r == StepNoGuard(m, c_pr, c_dr, rec, u)
      IN  IF u < MonthlyEquiv(c_dr) THEN r
          ELSE [r EXCEPT !.loan.alive = IF r.loan.balance <= EPS
                                        THEN FALSE ELSE m.alive]

(* Mortgage.step with "credit_loss = cash_recovered - self.balance". *)
StepLossSign(m, c_pr, c_dr, rec, u) ==
    IF ~m.alive \/ m.balance <= EPS THEN [loan |-> m, cf |-> ZeroCf]
    ELSE
      LET r == StepNoGuard(m, c_pr, c_dr, rec, u)
      IN  IF u < MonthlyEquiv(c_dr)
          THEN [r EXCEPT !.cf.loss = MulRate(m.balance, rec, ProbDen) - m.balance]
          ELSE r

(* The guard of Mortgage.step's early return. *)
Inert(m) == ~m.alive \/ m.balance <= EPS

(* Mortgage.step with uniform draw u/MonthDen: the loan after the call and *)
(* the returned cashflow dict.                                             *)
Step(m, c_pr, c_dr, rec, u) ==
    IF Inert(m) THEN [loan |-> m, cf |-> ZeroCf]
    ELSE
      LET monthly_default == MonthlyEquiv(c_dr)
          monthly_prepay  == MonthlyEquiv(c_pr)
          interest == MulRate(m.balance, m.rate, 12 * RateDen)
          scheduled_principal == Min(m.payment - interest, m.balance)
      IN  IF u < monthly_default
          THEN LET cash_recovered == MulRate(m.balance, rec, ProbDen)
                   credit_loss == m.balance - cash_recovered
               IN  [loan |-> [m EXCEPT !.balance = 0, !.alive = FALSE],
                    cf |-> [interest |-> 0, principal |-> cash_recovered,
                            loss |-> credit_loss]]
          ELSE LET prepay_amount ==
                       MulRate(m.balance - scheduled_principal, monthly_prepay, MonthDen)
                   total_principal ==
                       Min(m.balance, scheduled_principal + prepay_amount)
                   balance2 == m.balance - total_principal
                   remaining2 == m.remaining - 1
               IN  [loan |-> [m EXCEPT !.balance = balance2,
                                       !.remaining = remaining2,
                                       !.alive = IF remaining2 <= 0 \/ balance2 <= EPS
                                                 THEN FALSE ELSE m.alive],
                    cf |-> [interest |-> interest, principal |-> total_principal,
                            loss |-> 0]]

-----------------------------------------------------------------------------
(* Inputs *)
Principals == {7, 10}          \* random.uniform(180_000, 320_000)
LoanPrincipals == Principals \cup {9}   \* principals of the loan specification
Rates      == {6, 12}          \* max(0.01, random.gauss(0.045, 0.005)), annual
Probs      == {0, 4095, 4096}  \* annual CPR and CDR: 0, 1 - 2^-12, 1
Recoveries == {0, 2048, 4096}  \* recovery fraction: 0, 1/2, 1
Draws      == 0..(MonthDen - 1) \* random.random() in [0, 1)

(* Values of the variables a specification does not use. *)
NoNames == [n \in {} |-> 0]
PathIdle ==
    /\ runs = 0 /\ months = 0 /\ disc_rate = 0 /\ tranche_cfg = << >>
    /\ pv = NoNames /\ month = 0 /\ li = 0
    /\ cash_int = 0 /\ cash_prin = 0
    /\ interest_available = 0 /\ principal_available = 0
    /\ interest_paid = << >> /\ principal_paid = << >>
    /\ aggregate = NoNames /\ k = 0 /\ hist = << >>
SeedIdle == tape = << >> /\ pos = 0 /\ inv = 0 /\ result1 = NoNames
LoanIdle == paid = 0 /\ nsteps = 0 /\ principal0 = 0 /\ lastdraw = -1

pathVars == << runs, months, disc_rate, tranche_cfg, pv, month, li, cash_int,
               cash_prin, interest_available, principal_available,
               interest_paid, principal_paid, aggregate, k, hist >>
seedVars == << tape, pos, inv, result1 >>
loanVars == << paid, nsteps, principal0, lastdraw >>

-----------------------------------------------------------------------------
(* One loan, built by Mortgage.create and stepped with fixed CPR, CDR and  *)
(* recovery: Mortgage.step applied to every loan state it can produce.     *)
LoanInit ==
    /\ pc = "loan"
    /\ \E p \in LoanPrincipals, r \in Rates, t \in 1..MaxTerm :
          /\ mortgages = << Create(p, r, t) >>
          /\ principal0 = p
    /\ cpr \in Probs /\ cdr \in Probs /\ recovery \in Recoveries
    /\ cf = ZeroCf /\ paid = 0 /\ nsteps = 0 /\ lastdraw = -1
    /\ heap = << >> /\ tranches = << >> /\ losses = 0 /\ pre = << >>
    /\ PathIdle /\ SeedIdle

LoanStep ==
    /\ pc = "loan"
    /\ nsteps < MaxSteps
    /\ \E u \in Draws :
          LET res == Step(mortgages[1], cpr, cdr, recovery, u)
          IN  /\ mortgages' = << res.loan >>
              /\ cf' = res.cf
              /\ paid' = paid + res.cf.principal
              /\ lastdraw' = IF ~mortgages[1].alive \/ mortgages[1].balance <= EPS
                             THEN -1 ELSE u
    /\ nsteps' = nsteps + 1
    /\ UNCHANGED << pc, cpr, cdr, recovery, principal0, heap, tranches, losses,
                    pre, pathVars, seedVars >>

LoanNext == LoanStep
LoanSpec == LoanInit /\ [][LoanNext]_vars

(* C6: a loan's balance is 0 exactly when it is not alive. *)
C6_BalanceZeroIffInert ==
    pc = "loan" => (mortgages[1].balance = 0 <=> ~mortgages[1].alive)

(* C8: with CPR = CDR = 0, after exactly term steps the balance is within  *)
(* epsilon of zero and the principal returned sums to the original         *)
(* principal within epsilon.                                               *)
C8_Amortization ==
    (pc = "loan" /\ cpr = 0 /\ cdr = 0 /\ nsteps = mortgages[1].term)
        => /\ mortgages[1].balance <= EPS
           /\ mortgages[1].balance >= -EPS
           /\ paid - principal0 <= EPS
           /\ principal0 - paid <= EPS

(* The loan of the loan specification is live before a step. *)
LoanLive == pc = "loan" /\ mortgages[1].alive /\ mortgages[1].balance > EPS

(* C11: a default on a live loan with balance B returns interest 0,        *)
(* principal B*recovery and loss B - B*recovery (B*(1 - recovery) up to    *)
(* the rounding of the product), so principal + loss = B; it sets the      *)
(* balance to 0, marks the loan inert and leaves remaining alone: no       *)
(* scheduled principal and no prepayment in that step.                     *)
C11_DefaultStep ==
    [][(LoanLive /\ lastdraw' # -1 /\ lastdraw' < MonthlyEquiv(cdr)) =>
          LET B == mortgages[1].balance
          IN  /\ cf'.interest = 0
              /\ cf'.principal = MulRate(B, recovery, ProbDen)
              /\ cf'.principal + cf'.loss = B
              /\ cf'.loss - MulRate(B, ProbDen - recovery, ProbDen) \in {-1, 0, 1}
              /\ mortgages'[1].balance = 0
              /\ ~mortgages'[1].alive
              /\ mortgages'[1].remaining = mortgages[1].remaining
              /\ paid' = paid + MulRate(B, recovery, ProbDen)]_vars

C11_Witness ==
    /\ pc = "loan"
    /\ nsteps >= 2
    /\ lastdraw # -1 /\ lastdraw < MonthlyEquiv(cdr)
    /\ cf.principal > 0 /\ cf.loss > 0
    /\ mortgages[1].remaining = mortgages[1].term - 1
    /\ cpr = 4095

(* What lines 60-73 compute for a live loan m that does not default. *)
Scheduled(m) ==
    Min(m.payment - MulRate(m.balance, m.rate, 12 * RateDen), m.balance)
Prepay(m, c_pr) ==
    MulRate(m.balance - Scheduled(m), MonthlyEquiv(c_pr), MonthDen)

NonDefaultStep ==
    LET m == mortgages[1]
    IN  /\ cf'.loss = 0
        /\ cf'.interest = MulRate(m.balance, m.rate, 12 * RateDen)
        /\ cf'.principal = Min(m.balance, Scheduled(m) + Prepay(m, cpr))
        /\ mortgages'[1].balance = m.balance - cf'.principal
        /\ mortgages'[1].remaining = m.remaining - 1

(* C12 as claimed: ..., and with CPR = 0 the returned principal is         *)
(* payment - interest.                                                     *)
C12_Original ==
    [][(LoanLive /\ lastdraw' >= MonthlyEquiv(cdr)) =>
          /\ NonDefaultStep
          /\ cpr = 0 => cf'.principal = mortgages[1].payment - cf'.interest]_vars

(* C12, amended: a live loan that does not default returns loss 0,         *)
(* interest B*rate/12 and principal min(B, scheduled + prepay); the        *)
(* balance drops by the returned principal and remaining by one; with      *)
(* CPR = 0 the returned principal is min(payment - interest, B).           *)
C12_NonDefaultStep ==
    [][(LoanLive /\ lastdraw' >= MonthlyEquiv(cdr)) =>
          /\ NonDefaultStep
          /\ cpr = 0 => cf'.principal =
                           Min(mortgages[1].payment - cf'.interest, mortgages[1].balance)]_vars

C12_Witness ==
    /\ pc = "loan"
    /\ cpr = 4095
    /\ lastdraw >= MonthlyEquiv(cdr)
    /\ cf.loss = 0 /\ cf.interest > 0
    /\ cf.principal > mortgages[1].payment - cf.interest
    /\ mortgages[1].balance > EPS
    /\ mortgages[1].alive

(* C18: a loan of term T is inert after at most T calls of step; remaining *)
(* goes down by one on each step of a live loan that does not default, is  *)
(* left alone by every other step, and is never below 0.                   *)
C18_LifetimeBound ==
    [][pc = "loan" =>
          /\ mortgages'[1].remaining >= 0
          /\ mortgages'[1].remaining <= mortgages'[1].term
          /\ nsteps' >= mortgages'[1].term =>
                (~mortgages'[1].alive \/ mortgages'[1].balance <= EPS)
          /\ mortgages'[1].remaining = 0 => ~mortgages'[1].alive
          /\ IF LoanLive /\ lastdraw' >= MonthlyEquiv(cdr)
             THEN mortgages'[1].remaining = mortgages[1].remaining - 1
             ELSE mortgages'[1].remaining = mortgages[1].remaining]_vars

(* The loan has lived its whole term: its last scheduled step left a       *)
(* balance above epsilon and made it inert.                                *)
C18_Witness ==
    /\ pc = "loan"
    /\ mortgages[1].term >= 2
    /\ nsteps = mortgages[1].term
    /\ mortgages[1].remaining = 0
    /\ ~mortgages[1].alive
    /\ mortgages[1].balance > EPS
    /\ cf.interest > 0

(* C19: with CPR, CDR and recovery in [0,1] the balance is never negative  *)
(* and never goes up, every returned interest, principal and loss is >= 0, *)
(* and principal + loss is at most the balance before the step.            *)
C19_BalanceBounds ==
    [][pc = "loan" =>
          /\ mortgages'[1].balance >= 0
          /\ mortgages'[1].balance <= mortgages[1].balance
          /\ cf'.interest >= 0
          /\ cf'.principal >= 0
          /\ cf'.loss >= 0
          /\ cf'.principal + cf'.loss <= mortgages[1].balance]_vars

C19_Witness ==
    /\ pc = "loan"
    /\ nsteps >= 2
    /\ lastdraw # -1 /\ lastdraw < MonthlyEquiv(cdr)
    /\ cf.loss > 0 /\ cf.principal > 0
    /\ cf.principal + cf.loss < principal0
    /\ cpr = 4095 /\ recovery = 2048

-----------------------------------------------------------------------------
(* Tranches.  A Tranche is an object on the heap; tranche_defs and         *)
(* tranches are lists of references, as Python lists are.                  *)

NumTranches == 3       \* the three Tranche(...) literals of monte_carlo
NumLoans    == 2       \* range(400) in pool_factory

(* Tranche("Senior", 50_000_000, 0.03), Tranche("Mezz", 30_000_000, 0.05), *)
(* Tranche("Equity", 20_000_000, 0.00): units scaled to the pools of the   *)
(* model, coupons annual.                                                  *)
TrancheCfgs ==
    { << [name |-> "Senior", balance |-> 8, coupon |-> 3],
         [name |-> "Mezz",   balance |-> 5, coupon |-> 6],
         [name |-> "Equity", balance |-> 4, coupon |-> 0] >>,
      << [name |-> "Senior", balance |-> 6, coupon |-> 3],
         [name |-> "Mezz",   balance |-> 2, coupon |-> 6],
         [name |-> "Equity", balance |-> 1, coupon |-> 0] >> }

(* The references held by the list tranche_defs. *)
tranche_defs == [i \in 1..NumTranches |-> i]

Bal(i) == heap[tranches[i]].balance

(* Tranche.copy returning the object itself instead of a copy. *)
CopyAlias(h, r) == [ref |-> r, obj |-> h[r]]

(* Tranche.copy: a new object (a new reference) with the same fields. *)
Copy(h, r) ==
    [ref |-> r + NumTranches,
     obj |-> [name |-> h[r].name, balance |-> h[r].balance, coupon |-> h[r].coupon]]

(* [t.copy() for t in tranche_defs]: the heap with the copies, and the list. *)
CopyAll(h, defs) ==
    LET c(i) == Copy(h, defs[i])
        new  == {c(i).ref : i \in DOMAIN defs}
    IN  [heap |-> [r \in (DOMAIN h) \cup new |->
                      IF \E i \in DOMAIN defs : c(i).ref = r
                      THEN (c(CHOOSE i \in DOMAIN defs : c(i).ref = r)).obj
                      ELSE h[r]],
         refs |-> [i \in DOMAIN defs |-> c(i).ref]]

(* {t.name: 0.0 for t in tranches} *)
ZeroByName(h, trs) == [n \in {h[trs[i]].name : i \in DOMAIN trs} |-> 0]

(* allocate_losses with "hit = loss" for "hit = min(tr.balance, loss)". *)
RECURSIVE AllocLoopNoMin(_, _, _, _)
AllocLoopNoMin(h, trs, i, loss) ==
    IF i = 0 THEN h
    ELSE LET hit   == loss
             h2    == [h EXCEPT ![trs[i]].balance = @ - hit]
             loss2 == loss - hit
         IN  IF loss2 <= EPS THEN h2 ELSE AllocLoopNoMin(h2, trs, i - 1, loss2)

(* allocate_losses without "loss -= hit". *)
RECURSIVE AllocLoopNoDecrement(_, _, _, _)
AllocLoopNoDecrement(h, trs, i, loss) ==
    IF i = 0 THEN h
    ELSE LET hit == Min(h[trs[i]].balance, loss)
             h2  == [h EXCEPT ![trs[i]].balance = @ - hit]
         IN  IF loss <= EPS THEN h2 ELSE AllocLoopNoDecrement(h2, trs, i - 1, loss)

(* allocate_losses with "tr.balance += hit". *)
RECURSIVE AllocLoopAdd(_, _, _, _)
AllocLoopAdd(h, trs, i, loss) ==
    IF i = 0 THEN h
    ELSE LET hit   == Min(h[trs[i]].balance, loss)
             h2    == [h EXCEPT ![trs[i]].balance = @ + hit]
             loss2 == loss - hit
         IN  IF loss2 <= EPS THEN h2 ELSE AllocLoopAdd(h2, trs, i - 1, loss2)

(* allocate_losses: the loop over reversed(tranches), from index i down.   *)
RECURSIVE AllocLoop(_, _, _, _)
AllocLoop(h, trs, i, loss) ==
    IF i = 0 THEN h
    ELSE LET hit   == Min(h[trs[i]].balance, loss)
             h2    == [h EXCEPT ![trs[i]].balance = @ - hit]
             loss2 == loss - hit
         IN  IF loss2 <= EPS THEN h2 ELSE AllocLoop(h2, trs, i - 1, loss2)

allocate_losses(loss, h, trs) == AllocLoop(h, trs, Len(trs), loss)

(* The interest loop without "interest_available -= paid". *)
RECURSIVE InterestLoopNoDecrement(_, _, _, _, _)
InterestLoopNoDecrement(h, trs, i, avail, acc) ==
    IF i > Len(trs) THEN [paid |-> acc, left |-> avail]
    ELSE LET due     == RoundDiv(h[trs[i]].balance * h[trs[i]].coupon, 12 * RateDen)
             payment == Min(due, avail)
         IN  InterestLoopNoDecrement(h, trs, i + 1, avail, Append(acc, payment))

(* The interest loop of price_single_path from tranche i on: the list of   *)
(* payments and the interest cash left.                                    *)
RECURSIVE InterestLoop(_, _, _, _, _)
InterestLoop(h, trs, i, avail, acc) ==
    IF i > Len(trs) THEN [paid |-> acc, left |-> avail]
    ELSE LET due     == RoundDiv(h[trs[i]].balance * h[trs[i]].coupon, 12 * RateDen)
             payment == Min(due, avail)
         IN  InterestLoop(h, trs, i + 1, avail - payment, Append(acc, payment))

(* The principal loop without "principal_available -= pay". *)
RECURSIVE PrincipalLoopNoDecrement(_, _, _, _, _)
PrincipalLoopNoDecrement(h, trs, i, avail, acc) ==
    IF i > Len(trs) THEN [heap |-> h, paid |-> acc, left |-> avail]
    ELSE LET pay == Min(h[trs[i]].balance, avail)
         IN  PrincipalLoopNoDecrement([h EXCEPT ![trs[i]].balance = @ - pay], trs,
                                      i + 1, avail, Append(acc, pay))

(* The principal loop of price_single_path from tranche i on. *)
RECURSIVE PrincipalLoop(_, _, _, _, _)
PrincipalLoop(h, trs, i, avail, acc) ==
    IF i > Len(trs) THEN [heap |-> h, paid |-> acc, left |-> avail]
    ELSE LET pay == Min(h[trs[i]].balance, avail)
         IN  PrincipalLoop([h EXCEPT ![trs[i]].balance = @ - pay], trs, i + 1,
                           avail - pay, Append(acc, pay))

(* The discounting loop: pv[tr.name] += (ip + pp) / (1 + disc_rate/12)^month *)
RECURSIVE DiscountLoop(_, _, _, _, _, _, _)
DiscountLoop(h, trs, i, ips, pps, acc, factor) ==
    IF i > Len(trs) THEN acc
    ELSE DiscountLoop(h, trs, i + 1, ips, pps,
                      [acc EXCEPT ![h[trs[i]].name] =
                           @ + RoundDiv((ips[i] + pps[i]) * factor.den, factor.num)],
                      factor)

DiscountFactor(rate, m) ==
    [num |-> Pow(12 * RateDen + rate, m), den |-> Pow(12 * RateDen, m)]

-----------------------------------------------------------------------------
(* monte_carlo and price_single_path *)

PoolTerm  == 3         \* term_months=360 in pool_factory
RunCounts == 1..MaxRuns
Horizons  == (MaxMonths - 1)..MaxMonths
DiscRates == {36}      \* disc_rate = 0.05, annual
PathRecoveries == {0, 2048}   \* recovery = 0.60

(* pool_factory: one (principal, rate) draw per loan. *)
PoolRates == {6}       \* the rates the factory of the model draws
Pools == [1..NumLoans -> Principals \X PoolRates]
pool_factory(draw) == [i \in 1..NumLoans |-> Create(draw[i][1], draw[i][2], PoolTerm)]

AnyAlive(ms) == \E i \in DOMAIN ms : ms[i].alive

(* Lines 179-183 and 204 of monte_carlo: the template Tranche objects and  *)
(* the zeroed aggregate.                                                   *)
McStart(cfg) ==
    LET h == [r \in 1..NumTranches |-> cfg[r]]
    IN  [heap |-> h, aggregate |-> [n \in {h[tranche_defs[i]].name : i \in 1..NumTranches} |-> 0]]

(* The state when monte_carlo reaches its loop over runs (lines 179-204). *)
InitBase ==
    /\ pc = "mc_loop"
    /\ heap = McStart(tranche_cfg).heap
    /\ aggregate = McStart(tranche_cfg).aggregate
    /\ k = 0 /\ hist = << >>
    /\ tranches = << >> /\ mortgages = << >> /\ pv = NoNames
    /\ month = 0 /\ li = 0
    /\ cash_int = 0 /\ cash_prin = 0 /\ losses = 0
    /\ interest_available = 0 /\ principal_available = 0
    /\ interest_paid = << >> /\ principal_paid = << >>
    /\ cf = ZeroCf /\ pre = << >>
    /\ LoanIdle

Init ==
    /\ runs \in RunCounts /\ months \in Horizons
    /\ cpr \in Probs /\ cdr \in Probs /\ recovery \in PathRecoveries
    /\ disc_rate \in DiscRates
    /\ tranche_cfg \in TrancheCfgs
    /\ InitBase
    /\ SeedIdle

params == << runs, months, cpr, cdr, recovery, disc_rate, tranche_cfg >>
monthVars == << cash_int, cash_prin, losses, interest_available,
                principal_available, interest_paid, principal_paid, cf >>

(* price_single_path keeping a pv mapping that exists already. *)
PathStartWithStalePv(draw) ==
    /\ pc = "mc_loop"
    /\ k < runs
    /\ LET c == CopyAll(heap, tranche_defs)
       IN  /\ heap' = c.heap
           /\ tranches' = c.refs
           /\ pv' = IF pv = NoNames THEN ZeroByName(c.heap, c.refs) ELSE pv
    /\ mortgages' = pool_factory(draw)
    /\ month' = 1
    /\ pc' = "month_check"
    /\ UNCHANGED << params, li, monthVars, aggregate, k, hist, loanVars, pre >>

(* price_single_path is called and runs to its loop (lines 206, 122-125),  *)
(* the pool factory drawing `draw`.                                        *)
PathStartWith(draw) ==
    /\ pc = "mc_loop"
    /\ k < runs
    /\ LET c == CopyAll(heap, tranche_defs)
       IN  /\ heap' = c.heap
           /\ tranches' = c.refs
           /\ pv' = ZeroByName(c.heap, c.refs)
    /\ mortgages' = pool_factory(draw)
    /\ month' = 1
    /\ pc' = "month_check"
    /\ UNCHANGED << params, li, monthVars, aggregate, k, hist, loanVars, pre >>

(* The month loop without its bound. *)
MonthBeginNoBound ==
    /\ pc = "month_check"
    /\ AnyAlive(mortgages)
    /\ cash_int' = 0 /\ cash_prin' = 0 /\ losses' = 0
    /\ li' = 1
    /\ pc' = "step_loans"
    /\ UNCHANGED << params, heap, tranches, mortgages, pv, month,
                    interest_available, principal_available, interest_paid,
                    principal_paid, cf, aggregate, k, hist, loanVars, pre,
                    seedVars >>

(* The month loop without the break of lines 129-130. *)
MonthBeginNoBreak ==
    /\ pc = "month_check"
    /\ month <= months
    /\ cash_int' = 0 /\ cash_prin' = 0 /\ losses' = 0
    /\ li' = 1
    /\ pc' = "step_loans"
    /\ UNCHANGED << params, heap, tranches, mortgages, pv, month,
                    interest_available, principal_available, interest_paid,
                    principal_paid, cf, aggregate, k, hist, loanVars, pre,
                    seedVars >>

(* Lines 127-134: the loop takes the next month and some loan is alive. *)
MonthBegin ==
    /\ pc = "month_check"
    /\ month <= months
    /\ AnyAlive(mortgages)
    /\ cash_int' = 0 /\ cash_prin' = 0 /\ losses' = 0
    /\ li' = 1
    /\ pc' = "step_loans"
    /\ UNCHANGED << params, heap, tranches, mortgages, pv, month,
                    interest_available, principal_available, interest_paid,
                    principal_paid, cf, aggregate, k, hist, loanVars, pre,
                    seedVars >>

(* Lines 135-139, one iteration: loan li is stepped with draw u. *)
StepLoanWith(u) ==
    /\ pc = "step_loans"
    /\ LET res == Step(mortgages[li], cpr, cdr, recovery, u)
       IN  /\ mortgages' = [mortgages EXCEPT ![li] = res.loan]
           /\ cf' = res.cf
           /\ cash_int' = cash_int + res.cf.interest
           /\ cash_prin' = cash_prin + res.cf.principal
           /\ losses' = losses + res.cf.loss
    /\ li' = li + 1
    /\ pc' = IF li = Len(mortgages) THEN "allocate_losses" ELSE "step_loans"
    /\ UNCHANGED << params, heap, tranches, pv, month, interest_available,
                    principal_available, interest_paid, principal_paid,
                    aggregate, k, hist, loanVars, pre >>

(* Line 142 moved after the interest loop: interest is paid on the         *)
(* balances before the month's losses, then the losses are written down.   *)
AllocateLossesLate ==
    /\ pc = "allocate_losses"
    /\ LET res == InterestLoop(heap, tranches, 1, cash_int, << >>)
       IN  /\ interest_paid' = res.paid
           /\ interest_available' = res.left
    /\ heap' = allocate_losses(losses, heap, tranches)
    /\ pc' = "pay_principal"
    /\ UNCHANGED << params, tranches, mortgages, pv, month, li, cash_int,
                    cash_prin, losses, principal_available, principal_paid, cf,
                    aggregate, k, hist, loanVars, pre, seedVars >>

(* Line 142. *)
AllocateLosses ==
    /\ pc = "allocate_losses"
    /\ heap' = allocate_losses(losses, heap, tranches)
    /\ pc' = "pay_interest"
    /\ UNCHANGED << params, tranches, mortgages, pv, month, li, monthVars,
                    aggregate, k, hist, loanVars, pre, seedVars >>

(* Lines 146-152. *)
PayInterest ==
    /\ pc = "pay_interest"
    /\ LET res == InterestLoop(heap, tranches, 1, cash_int, << >>)
       IN  /\ interest_paid' = res.paid
           /\ interest_available' = res.left
    /\ pc' = "pay_principal"
    /\ UNCHANGED << params, heap, tranches, mortgages, pv, month, li, cash_int,
                    cash_prin, losses, principal_available, principal_paid, cf,
                    aggregate, k, hist, loanVars, pre, seedVars >>

(* Line 155 as "principal_available = cash_prin + cash_int". *)
PayPrincipalAllInterest ==
    /\ pc = "pay_principal"
    /\ LET res == PrincipalLoop(heap, tranches, 1, cash_prin + cash_int, << >>)
       IN  /\ heap' = res.heap
           /\ principal_paid' = res.paid
           /\ principal_available' = res.left
    /\ pc' = "discount"
    /\ UNCHANGED << params, tranches, mortgages, pv, month, li, cash_int,
                    cash_prin, losses, interest_available, interest_paid, cf,
                    aggregate, k, hist, loanVars, pre, seedVars >>

(* Lines 155-161. *)
PayPrincipal ==
    /\ pc = "pay_principal"
    /\ LET res == PrincipalLoop(heap, tranches, 1, cash_prin + interest_available, << >>)
       IN  /\ heap' = res.heap
           /\ principal_paid' = res.paid
           /\ principal_available' = res.left
    /\ pc' = "discount"
    /\ UNCHANGED << params, tranches, mortgages, pv, month, li, cash_int,
                    cash_prin, losses, interest_available, interest_paid, cf,
                    aggregate, k, hist, loanVars, pre, seedVars >>

(* Lines 164-166, and the loop goes to the next month. *)
Discount ==
    /\ pc = "discount"
    /\ pv' = DiscountLoop(heap, tranches, 1, interest_paid, principal_paid, pv,
                          DiscountFactor(disc_rate, month))
    /\ month' = month + 1
    /\ pc' = "month_check"
    /\ UNCHANGED << params, heap, tranches, mortgages, li, monthVars,
                    aggregate, k, hist, loanVars, pre, seedVars >>

(* The return with "aggregate[key] = pv[key]" for lines 207-208. *)
PathReturnOverwrite ==
    /\ pc = "month_check"
    /\ month > months \/ ~AnyAlive(mortgages)
    /\ aggregate' = [key \in DOMAIN aggregate |-> pv[key]]
    /\ hist' = Append(hist, pv)
    /\ k' = k + 1
    /\ pc' = "mc_loop"
    /\ UNCHANGED << params, heap, tranches, mortgages, pv, month, li,
                    monthVars, loanVars, pre, seedVars >>

(* The loop ends (range exhausted, or the break of line 130); line 168     *)
(* returns pv and lines 207-208 add it to aggregate.                       *)
PathReturn ==
    /\ pc = "month_check"
    /\ month > months \/ ~AnyAlive(mortgages)
    /\ aggregate' = [key \in DOMAIN aggregate |-> aggregate[key] + pv[key]]
    /\ hist' = Append(hist, pv)
    /\ k' = k + 1
    /\ pc' = "mc_loop"
    /\ UNCHANGED << params, heap, tranches, mortgages, pv, month, li,
                    monthVars, loanVars, pre, seedVars >>

(* Lines 210-212. *)
Average ==
    /\ pc = "mc_loop"
    /\ k = runs
    /\ aggregate' = [key \in DOMAIN aggregate |-> RoundDiv(aggregate[key], runs)]
    /\ pc' = "done"
    /\ UNCHANGED << params, heap, tranches, mortgages, pv, month, li,
                    monthVars, k, hist, loanVars, pre, seedVars >>

PathStart == (\E draw \in Pools : PathStartWith(draw)) /\ UNCHANGED seedVars
StepLoan  == (\E u \in Draws : StepLoanWith(u)) /\ UNCHANGED seedVars

Next ==
    \/ PathStart
    \/ MonthBegin
    \/ StepLoan
    \/ AllocateLosses
    \/ PayInterest
    \/ PayPrincipal
    \/ Discount
    \/ PathReturn
    \/ Average

Spec == Init /\ [][Next]_vars

TypeOK ==
    /\ pc \in {"mc_loop", "month_check", "step_loans", "allocate_losses",
               "pay_interest", "pay_principal", "discount", "done"}
    /\ k \in 0..runs
    /\ month \in 0..(months + 1)

(* One call of price_single_path from monte_carlo(1).  The program is      *)
(* sequential: whenever a step is possible the interpreter takes it.       *)
PathInit == Init /\ runs = 1
FairPathSpec == PathInit /\ [][Next]_vars /\ WF_vars(Next)

-----------------------------------------------------------------------------
(* Claims about a path *)

RECURSIVE SumPv(_, _, _)
SumPv(h, key, j) == IF j = 0 THEN 0 ELSE h[j][key] + SumPv(h, key, j - 1)

TrancheNames == {tranche_cfg[i].name : i \in DOMAIN tranche_cfg}

(* C2: sequential pay.  After the principal allocation of a month, a       *)
(* tranche that received a nonzero principal payment has every more senior *)
(* tranche at balance exactly 0.                                           *)
C2_SequentialPay ==
    pc = "discount" =>
        \A i \in 2..Len(tranches) :
            principal_paid[i] # 0 => \A j \in 1..(i - 1) : Bal(j) = 0

C2_Witness ==
    /\ pc = "discount"
    /\ principal_paid[2] > 0
    /\ Bal(1) = 0
    /\ Bal(2) > 0

(* C3: monotonicity.  No step of a path increases a tranche balance. *)
C3_Monotone ==
    [][pc # "mc_loop" =>
          \A i \in DOMAIN tranches :
              heap'[tranches'[i]].balance <= heap[tranches[i]].balance]_vars

C3_Witness ==
    /\ pc = "discount"
    /\ losses > 0
    /\ \E i \in DOMAIN tranches :
          principal_paid[i] > 0 /\ Bal(i) < tranche_cfg[i].balance

(* C4: a path processes at most `months` monthly iterations and ends; it   *)
(* ends because no loan is alive or because the month counter passed       *)
(* `months`, and returns a present value for every tranche.                *)
C4_Terminates ==
    /\ [](month <= months + 1)
    /\ [](pc = "mc_loop" /\ k > 0 =>
              /\ month > months \/ ~AnyAlive(mortgages)
              /\ DOMAIN hist[k] = TrancheNames)
    /\ ((pc = "month_check" /\ month = 1) ~> (pc = "mc_loop"))
    /\ <>(pc = "done")

C4_Witness ==
    /\ pc = "mc_loop"
    /\ k > 0
    /\ month = months + 1
    /\ AnyAlive(mortgages)

(* C5: the template tranches are never modified, and every path starts     *)
(* with fresh working tranches that carry the template balances, with a    *)
(* fresh pool and with zero present values.                                *)
C5_Isolation ==
    /\ \A i \in DOMAIN tranche_cfg : heap[tranche_defs[i]] = tranche_cfg[i]
    /\ (pc = "month_check" /\ month = 1) =>
          /\ \A i \in DOMAIN tranches :
                /\ heap[tranches[i]] = tranche_cfg[i]
                /\ \A j \in DOMAIN tranche_defs : tranches[i] # tranche_defs[j]
          /\ \A key \in TrancheNames : pv[key] = 0
          /\ \A i \in DOMAIN mortgages :
                mortgages[i].alive /\ mortgages[i].remaining = mortgages[i].term

C5_Witness ==
    /\ pc = "month_check" /\ month = 1
    /\ k = 1
    /\ \E key \in TrancheNames : hist[1][key] > 0
    /\ \A i \in DOMAIN tranches : Bal(i) = tranche_cfg[i].balance

(* C9: monte_carlo runs `runs` paths and returns, for every tranche name,  *)
(* the sum of the paths' present values divided by runs.                   *)
C9_Average ==
    pc = "done" =>
        /\ k = runs
        /\ Len(hist) = runs
        /\ DOMAIN aggregate = TrancheNames
        /\ \A key \in TrancheNames :
              aggregate[key] = RoundDiv(SumPv(hist, key, runs), runs)

C9_Witness ==
    /\ pc = "done"
    /\ runs = 2
    /\ \E key \in TrancheNames :
          hist[1][key] # hist[2][key] /\ hist[1][key] > 0 /\ hist[2][key] > 0

(* C10: a step on an inert loan returns an all-zero cashflow and leaves    *)
(* the loan unchanged, alive never turns from false to true, and within a  *)
(* path only the step of loan li changes a loan, and only loan li.         *)
C10_InertAbsorbing ==
    [][pc # "mc_loop" =>
          /\ \A i \in DOMAIN mortgages :
                /\ (~mortgages[i].alive \/ mortgages[i].balance <= EPS)
                      => mortgages'[i] = mortgages[i]
                /\ (pc = "step_loans" /\ li = i
                      /\ (~mortgages[i].alive \/ mortgages[i].balance <= EPS))
                      => cf' = ZeroCf
                /\ ~(pc = "step_loans" /\ li = i) => mortgages'[i] = mortgages[i]
                /\ ~mortgages[i].alive => ~mortgages'[i].alive]_vars

C10_Witness ==
    /\ pc = "step_loans"
    /\ li = 2
    /\ cf = ZeroCf
    /\ ~mortgages[1].alive
    /\ mortgages[2].alive

(* The interest due of tranche i on its current balance (line 149). *)
Due(i) == RoundDiv(Bal(i) * heap[tranches[i]].coupon, 12 * RateDen)

(* C13: in a processed month all loans are stepped, then the losses are    *)
(* allocated, then interest, then principal, then the discounting; the     *)
(* interest and the principal paid to a tranche are computed from its      *)
(* balance after the month's loss allocation.                              *)
C13_MonthOrder ==
    [][/\ pc = "step_loans" =>
             /\ pc' = IF li = Len(mortgages) THEN "allocate_losses" ELSE "step_loans"
             /\ heap' = heap /\ pv' = pv
             /\ interest_paid' = interest_paid /\ principal_paid' = principal_paid
       /\ pc = "allocate_losses" =>
             /\ li = Len(mortgages) + 1
             /\ pc' = "pay_interest"
             /\ interest_paid' = interest_paid /\ principal_paid' = principal_paid
             /\ pv' = pv
       /\ pc = "pay_interest" =>
             /\ pc' = "pay_principal"
             /\ heap' = heap /\ pv' = pv /\ principal_paid' = principal_paid
             /\ \A i \in DOMAIN tranches :
                   interest_paid'[i] =
                       Min(Due(i), cash_int - SumSeq(interest_paid', i - 1))
       /\ pc = "pay_principal" =>
             /\ pc' = "discount"
             /\ pv' = pv /\ interest_paid' = interest_paid
             /\ \A i \in DOMAIN tranches :
                   /\ principal_paid'[i] =
                         Min(Bal(i), cash_prin + interest_available
                                        - SumSeq(principal_paid', i - 1))
                   /\ heap'[tranches[i]].balance = Bal(i) - principal_paid'[i]
       /\ pc = "discount" =>
             /\ pc' = "month_check"
             /\ heap' = heap /\ mortgages' = mortgages]_vars

C13_Witness ==
    /\ pc = "discount"
    /\ month = 1
    /\ losses > EPS
    /\ \E i \in DOMAIN tranches :
          /\ interest_paid[i] > 0
          /\ Bal(i) + principal_paid[i] < tranche_cfg[i].balance
          /\ Bal(i) + principal_paid[i] > 0
    /\ \E j \in DOMAIN tranches : principal_paid[j] > 0

NoneAlive == \A i \in DOMAIN mortgages : ~mortgages[i].alive

(* C16: at the start of a month with no loan alive the path stops: no loan *)
(* is stepped, nothing is allocated, no PV changes, and the PVs it has are *)
(* what it returns; the month in which the last live loan becomes inert is *)
(* still processed to its end, its cash allocated and discounted.          *)
C16_EarlyTermination ==
    [][/\ (pc = "month_check" /\ NoneAlive) =>
             /\ pc' = "mc_loop"
             /\ mortgages' = mortgages
             /\ heap' = heap
             /\ pv' = pv
             /\ hist' = Append(hist, pv)
             /\ month' = month
       /\ (pc = "step_loans" /\ NoneAlive') =>
             pc' = IF li = Len(mortgages) THEN "allocate_losses" ELSE "step_loans"
       /\ (pc = "allocate_losses" /\ NoneAlive) => pc' = "pay_interest"
       /\ (pc = "pay_interest" /\ NoneAlive) => pc' = "pay_principal"
       /\ (pc = "pay_principal" /\ NoneAlive) =>
             /\ pc' = "discount"
             /\ SumSeq(interest_paid, Len(tranches))
                  + SumSeq(principal_paid', Len(tranches)) + principal_available'
                   = cash_int + cash_prin
       /\ (pc = "discount" /\ NoneAlive) =>
             /\ pc' = "month_check"
             /\ \A i \in DOMAIN tranches :
                   pv'[heap[tranches[i]].name] =
                       pv[heap[tranches[i]].name]
                         + RoundDiv((interest_paid[i] + principal_paid[i])
                                       * Pow(12 * RateDen, month),
                                    Pow(12 * RateDen + disc_rate, month))]_vars

(* A path has returned before its horizon, after a month that paid. *)
C16_Witness ==
    /\ pc = "mc_loop"
    /\ k >= 1
    /\ month >= 2 /\ month <= months
    /\ NoneAlive
    /\ \E key \in DOMAIN pv : pv[key] > 0 /\ hist[k][key] = pv[key]
    /\ \E i \in DOMAIN tranches : principal_paid[i] > 0

-----------------------------------------------------------------------------
(* The waterfall of one month alone (lines 142-166), entered with any      *)
(* tranche balances, any month's losses and any collateral cash.           *)
MaxBal == 4        \* largest tranche balance of the allocation inputs
MaxCash == 4       \* largest collateral interest or principal cash of a month
MaxLoss == 5       \* largest collateral loss of a month

WaterfallInit ==
    /\ pc = "allocate_losses"
    /\ tranche_cfg \in TrancheCfgs
    /\ \E b \in [1..NumTranches -> 0..MaxBal] :
          /\ heap = [i \in 1..NumTranches |-> [tranche_cfg[i] EXCEPT !.balance = b[i]]]
          /\ pre = b
    /\ tranches = tranche_defs
    /\ pv = ZeroByName(heap, tranches)
    /\ aggregate = ZeroByName(heap, tranches)
    /\ cash_int \in 0..MaxCash /\ cash_prin \in 0..MaxCash /\ losses \in 0..MaxLoss
    /\ runs = 1 /\ months = 1 /\ month = 1 /\ k = 0 /\ hist = << >>
    /\ disc_rate \in DiscRates
    /\ cpr = 0 /\ cdr = 0 /\ recovery = 0
    /\ mortgages = << >> /\ li = 1 /\ cf = ZeroCf
    /\ interest_available = 0 /\ principal_available = 0
    /\ interest_paid = << >> /\ principal_paid = << >>
    /\ LoanIdle /\ SeedIdle

WaterfallNext ==
    \/ AllocateLosses
    \/ PayInterest
    \/ PayPrincipal
    \/ Discount

WaterfallSpec == WaterfallInit /\ [][WaterfallNext]_vars

(* C14: the interest step pays tranche i, most senior first,               *)
(* min(balance_i * coupon_i / 12, interest cash left after tranches 1..i-1);*)
(* no tranche gets more than its due, the total never exceeds the month's  *)
(* collateral interest, no balance changes, the due of a month depends on  *)
(* that month's balance alone, and the principal pool of the month is the  *)
(* collateral principal cash plus the interest cash left unconsumed.       *)
C14_InterestAllocation ==
    [][/\ pc = "pay_interest" =>
             /\ \A i \in DOMAIN tranches :
                   /\ interest_paid'[i] =
                         Min(Due(i), cash_int - SumSeq(interest_paid', i - 1))
                   /\ interest_paid'[i] <= Due(i)
                   /\ interest_paid'[i] >= 0
             /\ Len(interest_paid') = Len(tranches)
             /\ SumSeq(interest_paid', Len(tranches)) <= cash_int
             /\ interest_available' =
                   cash_int - SumSeq(interest_paid', Len(tranches))
             /\ \A r \in DOMAIN heap : heap'[r] = heap[r]
       /\ pc = "pay_principal" =>
             /\ SumSeq(principal_paid', Len(tranches)) + principal_available'
                   = cash_prin + cash_int - SumSeq(interest_paid, Len(tranches))
             /\ principal_paid'[1] =
                   Min(Bal(1), cash_prin + cash_int
                                  - SumSeq(interest_paid, Len(tranches)))]_vars

C14_Witness ==
    /\ pc = "discount"
    /\ cash_int > 0
    /\ interest_paid[1] > 0
    /\ interest_paid[2] > 0
    /\ interest_paid[2] < Due(2)
    /\ interest_available = 0
    /\ principal_paid[1] = cash_prin
    /\ cash_prin > 0

(* allocate_losses has just returned from a call with a loss greater than *)
(* the sum of the tranche balances.                                        *)
Overflowed ==
    /\ pc = "pay_interest"
    /\ losses > SumSeq(pre, Len(pre))

(* C15 as claimed: after a loss greater than the sum of the balances every *)
(* tranche balance is exactly 0, and no balance is ever negative.          *)
C15_Original ==
    /\ \A i \in DOMAIN tranches : Bal(i) >= 0
    /\ Overflowed => \A i \in DOMAIN tranches : Bal(i) = 0

(* C15, amended: no tranche balance is ever negative; after a loss greater *)
(* than the sum of the balances the tranches are zeroed from the most      *)
(* junior up to the one where the remaining loss falls to epsilon or       *)
(* below, the tranches above it keep their balances, which sum to less     *)
(* than epsilon, and the rest of the loss is dropped.                      *)
C15_LossOverflow ==
    /\ \A i \in DOMAIN tranches : Bal(i) >= 0
    /\ Overflowed =>
          /\ \A i \in DOMAIN tranches :
                \/ Bal(i) = 0
                \/ /\ \A j \in 1..i : Bal(j) = pre[j]
                   /\ SumSeq(pre, i) < EPS
                   /\ losses - SumSeq(pre, Len(pre)) + SumSeq(pre, i) <= EPS
          /\ SumSeq([i \in DOMAIN tranches |-> Bal(i)], Len(tranches)) < EPS

C15_Witness ==
    /\ pc = "pay_interest"
    /\ losses > SumSeq(pre, Len(pre))
    /\ \A i \in DOMAIN tranches : pre[i] > 0 /\ Bal(i) = 0

(* The sum of the tranche balances. *)
TotalBalance == SumSeq([i \in DOMAIN tranches |-> Bal(i)], Len(tranches))

(* C17: the interest and principal paid to the tranches in a month sum to  *)
(* at most the collateral cash of the month (interest plus principal), and *)
(* to exactly that cash when the balances after the loss allocation sum to *)
(* at least the principal pool; otherwise every tranche is retired and the *)
(* cash left over reaches no tranche and no PV.                            *)
C17_CashConservation ==
    [][/\ pc = "pay_principal" =>
             LET paid_out == SumSeq(interest_paid, Len(tranches))
                               + SumSeq(principal_paid', Len(tranches))
                 cash     == cash_int + cash_prin
                 pool     == cash_prin + interest_available
             IN  /\ paid_out <= cash
                 /\ TotalBalance >= pool => paid_out = cash /\ principal_available' = 0
                 /\ TotalBalance < pool =>
                       /\ paid_out = cash - (pool - TotalBalance)
                       /\ principal_available' = pool - TotalBalance
                       /\ \A i \in DOMAIN tranches : heap'[tranches[i]].balance = 0
       /\ pc = "discount" =>
             /\ \A i \in DOMAIN tranches :
                   LET n == heap[tranches[i]].name
                   IN  /\ pv'[n] >= pv[n]
                       /\ pv'[n] - pv[n] <= interest_paid[i] + principal_paid[i]
             /\ heap' = heap]_vars

C17_Witness ==
    /\ pc = "month_check"
    /\ principal_available > 0
    /\ \A i \in DOMAIN tranches : Bal(i) = 0 /\ principal_paid[i] > 0
    /\ \E i \in DOMAIN tranches : interest_paid[i] > 0
    /\ \E n \in DOMAIN pv : pv[n] > 0

-----------------------------------------------------------------------------
(* allocate_losses alone: called once on a list of one to three tranches   *)
(* with any balances and on any loss.                                      *)
AllocInit ==
    /\ pc = "alloc_call"
    /\ \E n \in 1..NumTranches :
          /\ tranches = [i \in 1..n |-> i]
          /\ \E b \in [1..n -> 0..MaxBal] :
                /\ heap = [i \in 1..n |-> [name |-> i, balance |-> b[i], coupon |-> 0]]
                /\ pre = b
                /\ losses \in 0..(SumSeq(b, n) + EPS + 1)
    /\ mortgages = << >> /\ cf = ZeroCf
    /\ cpr = 0 /\ cdr = 0 /\ recovery = 0
    /\ PathIdle /\ LoanIdle /\ SeedIdle

AllocCall ==
    /\ pc = "alloc_call"
    /\ heap' = allocate_losses(losses, heap, tranches)
    /\ pc' = "alloc_done"
    /\ UNCHANGED << cpr, cdr, recovery, tranches, mortgages, losses, cf, pre,
                    pathVars, loanVars, seedVars >>

AllocNext == AllocCall
AllocSpec == AllocInit /\ [][AllocNext]_vars

Reductions == SumSeq([i \in DOMAIN tranches |-> pre[i] - Bal(i)], Len(tranches))

(* After a call with a loss of at most the total balance, a tranche has    *)
(* been reduced only if every less senior tranche ends at balance 0.       *)
SeniorLast ==
    \A i \in DOMAIN tranches :
        Bal(i) < pre[i] => \A j \in (i + 1)..Len(tranches) : Bal(j) = 0

(* C1 as claimed: ..., and the balance reductions sum to the loss. *)
C1_Original ==
    (pc = "alloc_done" /\ losses <= SumSeq(pre, Len(pre)))
        => SeniorLast /\ Reductions = losses

(* C1, amended: a tranche is reduced only if every less senior tranche     *)
(* ends at 0, and the balance reductions sum to the loss less the          *)
(* remainder the loop drops when it stops, which is at most epsilon.       *)
C1_LossAllocation ==
    (pc = "alloc_done" /\ losses <= SumSeq(pre, Len(pre)))
        => /\ SeniorLast
           /\ Reductions <= losses
           /\ losses - Reductions <= EPS

C1_Witness ==
    /\ pc = "alloc_done"
    /\ Len(tranches) = 3
    /\ losses <= SumSeq(pre, Len(pre))
    /\ Bal(1) < pre[1] /\ Bal(1) > 0
    /\ pre[2] > 0 /\ pre[3] > 0
    /\ Bal(2) = 0 /\ Bal(3) = 0

-----------------------------------------------------------------------------
(* Two invocations of monte_carlo in one process, the second started from  *)
(* the state of the random source the first started from.  The random      *)
(* source is a tape: the first invocation draws freely and records its     *)
(* draws, the second reads them back.  Mortgage.step draws only when the   *)
(* loan is not inert (line 64 is after the early return).                  *)
SeedCfg     == << [name |-> "Senior", balance |-> 8, coupon |-> 3],
                  [name |-> "Mezz",   balance |-> 5, coupon |-> 6],
                  [name |-> "Equity", balance |-> 4, coupon |-> 0] >>
SeedHorizons == {MaxMonths - 1}

SeedInit ==
    /\ runs = 2 /\ months \in SeedHorizons
    /\ cpr = 0 /\ cdr = 4095 /\ recovery = 2048
    /\ disc_rate \in DiscRates
    /\ tranche_cfg = SeedCfg
    /\ InitBase
    /\ tape = << >> /\ pos = 1 /\ inv = 1 /\ result1 = NoNames

(* The next draw: free and recorded in the first invocation, read from the *)
(* tape in the second.                                                     *)
Drawn(kind, d) ==
    \/ /\ inv = 1
       /\ tape' = Append(tape, [kind |-> kind, val |-> d])
       /\ UNCHANGED << pos, inv, result1 >>
    \/ /\ inv = 2
       /\ pos <= Len(tape)
       /\ tape[pos].kind = kind
       /\ tape[pos].val = d
       /\ pos' = pos + 1
       /\ UNCHANGED << tape, inv, result1 >>

SeedPathStart ==
    \E draw \in Pools : PathStartWith(draw) /\ Drawn("pool", draw)

SeedStepLoan ==
    /\ pc = "step_loans"
    /\ IF Inert(mortgages[li])
       THEN StepLoanWith(0) /\ UNCHANGED seedVars
       ELSE \E u \in Draws : StepLoanWith(u) /\ Drawn("uniform", u)

(* The first invocation has returned; the caller keeps its result, seeds   *)
(* the random source again and calls monte_carlo again (lines 179-204).    *)
Reinvoke ==
    /\ pc = "done"
    /\ inv = 1
    /\ result1' = aggregate
    /\ inv' = 2 /\ pos' = 1
    /\ heap' = McStart(tranche_cfg).heap
    /\ aggregate' = McStart(tranche_cfg).aggregate
    /\ k' = 0 /\ hist' = << >>
    /\ pc' = "mc_loop"
    /\ UNCHANGED << params, tranches, mortgages, pv, month, li, monthVars,
                    loanVars, pre, tape >>

SeedNext ==
    \/ SeedPathStart
    \/ MonthBegin
    \/ SeedStepLoan
    \/ AllocateLosses
    \/ PayInterest
    \/ PayPrincipal
    \/ Discount
    \/ PathReturn
    \/ Average
    \/ Reinvoke

SeedSpec == SeedInit /\ [][SeedNext]_vars

(* C7: the second invocation, reading the draws the first one read,        *)
(* returns the averages the first one returned.                            *)
C7_Determinism ==
    (pc = "done" /\ inv = 2) => (pos = Len(tape) + 1 /\ aggregate = result1)

C7_Witness ==
    /\ pc = "done" /\ inv = 2
    /\ pos = Len(tape) + 1
    /\ \E i \in DOMAIN tape : tape[i].kind = "uniform" /\ tape[i].val = 0
    /\ \E key \in TrancheNames : aggregate[key] > 0
    /\ hist[1] # hist[2]

====
